---- MODULE Spec2Model ----
(***************************************************************************)
(* Model of scripts/generate_manifest.py: a directory walk, a chunked      *)
(* SHA-256 of every file found, and a sorted JSON manifest written into    *)
(* the stage directory.                                                    *)
(*                                                                         *)
(* Strings are sequences of character codes, so that Python's string order *)
(* (by code point) and the JSON text can be computed.  A file's content is *)
(* a sequence of bytes.  SHA-256 is not computable here: hexdigest() is    *)
(* modelled by an injective stand-in, the lowercase hex rendering of the   *)
(* bytes fed to the hash (two hex digits per byte instead of 64 in all).   *)
(***************************************************************************)
EXTENDS Integers, Sequences, FiniteSets, TLC

\* ------------------------------------------------------------------ bounds
MaxNameLen == 3
MaxAppends == 2
MaxEnvSteps == 2
MaxRuns == 2

\* --------------------------------------------------------------- constants
CHUNK == 4096
INDENT == 2

\* ----------------------------------------------------------------- strings
UNKNOWN == <<117, 110, 107, 110, 111, 119, 110>>
ERROR_PREFIX == <<69, 82, 82, 79, 82, 58, 32>>
MANIFEST_JSON == <<109, 97, 110, 105, 102, 101, 115, 116, 46, 106, 115, 111, 110>>
K_FILES == <<102, 105, 108, 101, 115>>
K_TIMESTAMP == <<116, 105, 109, 101, 115, 116, 97, 109, 112>>
K_TOTAL_FILES == <<116, 111, 116, 97, 108, 95, 102, 105, 108, 101, 115>>
K_SHA256 == <<115, 104, 97, 50, 53, 54>>
K_SIZE_BYTES == <<115, 105, 122, 101, 95, 98, 121, 116, 101, 115>>
SEP == <<47>>
UNDERSCORE == <<95>>
\* str(e) of the three I/O failures: "[Errno 2]", "[Errno 13]", "[Errno 5]"
ENOENT == <<91, 69, 114, 114, 110, 111, 32, 50, 93>>
EACCES == <<91, 69, 114, 114, 110, 111, 32, 49, 51, 93>>
EIO == <<91, 69, 114, 114, 110, 111, 32, 53, 93>>

Min(a, b) == IF a < b THEN a ELSE b

\* Python's str order: by code point, a proper prefix first
RECURSIVE StrLess(_, _)
StrLess(s, t) ==
    IF t = <<>> THEN FALSE
    ELSE IF s = <<>> THEN TRUE
    ELSE IF Head(s) # Head(t) THEN Head(s) < Head(t)
    ELSE StrLess(Tail(s), Tail(t))

StartsWith(s, p) == Len(s) >= Len(p) /\ SubSeq(s, 1, Len(p)) = p

\* ------------------------------------------------------------- file system
\* The relative paths an entry of the stage directory can have
P_A == <<97>>
P_ST == <<115, 46, 116>>
P_SB == <<115, 47, 98>>
P_SDC == <<115, 47, 100, 47, 99>>
Paths == {P_A, P_ST, P_SB, P_SDC, MANIFEST_JSON}

\* index of the last "/" of a path, 0 if it has none
LastSep(p) ==
    LET S == {i \in 1..Len(p) : <<p[i]>> = SEP}
    IN  IF S = {} THEN 0 ELSE CHOOSE i \in S : \A j \in S : j <= i

\* directory holding the entry p, relative to the stage directory (<<>> = the root)
Parent(p) == IF LastSep(p) = 0 THEN <<>> ELSE SubSeq(p, 1, LastSep(p) - 1)

RECURSIVE Ancestors(_)
Ancestors(p) == IF p = <<>> THEN {<<>>} ELSE {p} \cup Ancestors(Parent(p))

\* every directory of the tree
Dirs == UNION {Ancestors(Parent(p)) : p \in Paths}

NoEntry == [kind |-> "none", content |-> <<>>, readable |-> TRUE, faulty |-> FALSE]
RegFile(c) == [kind |-> "reg", content |-> c, readable |-> TRUE, faulty |-> FALSE]
\* a symbolic link whose target does not exist
DanglingLink == [kind |-> "link", content |-> <<>>, readable |-> TRUE, faulty |-> FALSE]

\* content of the files of the initial tree: "hi", "", "bye", "c"
InitContent(p) ==
    IF p = P_A THEN <<104, 105>>
    ELSE IF p = P_SB THEN <<98, 121, 101>>
    ELSE IF p = P_SDC THEN <<99>>
    ELSE <<>>

\* ------------------------------------------------------------ pure helpers
\* the name split at its last underscore (the mutant of Timestamp)
TimestampLast(name) ==
    LET U == {i \in 1..Len(name) : <<name[i]>> = UNDERSCORE}
    IN  IF U = {} THEN UNKNOWN
        ELSE LET last == CHOOSE i \in U : \A j \in U : j <= i
             IN  SubSeq(name, last + 1, Len(name))

\* stage_path.name.split('_', 1)[1] if '_' in stage_path.name else "unknown"
Timestamp(name) ==
    LET U == {i \in 1..Len(name) : <<name[i]>> = UNDERSCORE}
    IN  IF U = {} THEN UNKNOWN
        ELSE LET first == CHOOSE i \in U : \A j \in U : i <= j
             IN  SubSeq(name, first + 1, Len(name))

\* Path(root) / file, and file_path.relative_to(stage_path)
JoinPath(stage, rel) == stage \o SEP \o rel
RelativeTo(abs, stage) == SubSeq(abs, Len(stage) + 2, Len(abs))

\* the orders in which a set can be enumerated
Perms(S) == {s \in [1..Cardinality(S) -> S] : \A i, j \in 1..Cardinality(S) : s[i] = s[j] => i = j}

\* the `files` os.walk yields for a directory: every entry that is not a directory
FilesIn(fsx, dir) == {p \in Paths : Parent(p) = dir /\ fsx[p].kind # "none"}
\* the `dirs` os.walk yields for a directory
SubDirsOf(dir) == {d \in Dirs : d # <<>> /\ Parent(d) = dir}

\* os.walk top-down without a recursion (the mutant of OsWalk)
OsWalkFlat(fsx, dir) == Perms(FilesIn(fsx, dir))

\* os.walk(stage_path), as the relative paths of the files in the order they
\* are yielded: the files of a directory in the order the directory lists
\* them, then each sub-directory in turn; every such order is possible
RECURSIVE OsWalk(_, _), SubWalks(_, _)
OsWalk(fsx, dir) ==
    {f \o r : f \in Perms(FilesIn(fsx, dir)), r \in SubWalks(fsx, SubDirsOf(dir))}
SubWalks(fsx, ds) ==
    IF ds = {} THEN {<<>>}
    ELSE UNION {{w \o r : w \in OsWalk(fsx, d), r \in SubWalks(fsx, ds \ {d})} : d \in ds}

\* all_files.append((str(rel_path), str(file_path))) for every file yielded
Collect(stage, w) ==
    [i \in 1..Len(w) |-> <<RelativeTo(JoinPath(stage, w[i]), stage), JoinPath(stage, w[i])>>]

RECURSIVE InsertByRel(_, _)
InsertByRel(x, s) ==
    IF s = <<>> THEN <<x>>
    ELSE IF StrLess(x[1], Head(s)[1]) THEN <<x>> \o s
    ELSE <<Head(s)>> \o InsertByRel(x, Tail(s))

\* all_files left as enumerated (the mutant of SortByRel)
SortByRelNone(s) == s

\* all_files.sort(key=lambda x: x[0]): stable, by relative path
RECURSIVE SortByRel(_)
SortByRel(s) ==
    IF s = <<>> THEN <<>>
    ELSE InsertByRel(s[Len(s)], SortByRel(SubSeq(s, 1, Len(s) - 1)))

HexDigit(d) == IF d < 10 THEN 48 + d ELSE 87 + d
\* sha256_hash.hexdigest(): lowercase hex, injective in the bytes hashed
Hexdigest(bytes) ==
    [i \in 1..(2 * Len(bytes)) |->
        IF i % 2 = 1 THEN HexDigit(bytes[(i + 1) \div 2] \div 16)
        ELSE HexDigit(bytes[i \div 2] % 16)]

\* f"ERROR: {str(e)}"
ErrorMarker(e) == ERROR_PREFIX \o e

\* ------------------------------------------------------------------- JSON
Quote(s) == <<34>> \o s \o <<34>>
Spaces(n) == [i \in 1..n |-> 32]
NL == <<10>>
RECURSIVE Dec(_)
Dec(n) == IF n < 10 THEN <<48 + n>> ELSE Dec(n \div 10) \o <<48 + (n % 10)>>

\* sort_keys=True: the keys of a dict in str order
RECURSIVE SortedKeys(_)
SortedKeys(S) ==
    IF S = {} THEN <<>>
    ELSE LET m == CHOOSE x \in S : \A y \in S : x = y \/ StrLess(x, y)
         IN  <<m>> \o SortedKeys(S \ {m})

\* one entry of "files", at the second indentation level
JsonRecord(k, rec) ==
    Spaces(2 * INDENT) \o Quote(k) \o <<58, 32, 123>> \o NL
    \o Spaces(3 * INDENT) \o Quote(K_SHA256) \o <<58, 32>> \o Quote(rec.sha256) \o <<44>> \o NL
    \o Spaces(3 * INDENT) \o Quote(K_SIZE_BYTES) \o <<58, 32>> \o Dec(rec.size_bytes) \o NL
    \o Spaces(2 * INDENT) \o <<125>>

RECURSIVE JsonRecords(_, _)
JsonRecords(files, ks) ==
    IF ks = <<>> THEN <<>>
    ELSE JsonRecord(Head(ks), files[Head(ks)])
         \o (IF Tail(ks) = <<>> THEN <<>> ELSE <<44>> \o NL \o JsonRecords(files, Tail(ks)))

\* json.dump(manifest, f, indent=2, sort_keys=True)
JsonText(m) ==
    <<123>> \o NL
    \o Spaces(INDENT) \o Quote(K_FILES) \o <<58, 32>>
    \o (IF DOMAIN m.files = {} THEN <<123, 125>>
        ELSE <<123>> \o NL \o JsonRecords(m.files, SortedKeys(DOMAIN m.files)) \o NL
             \o Spaces(INDENT) \o <<125>>)
    \o <<44>> \o NL
    \o Spaces(INDENT) \o Quote(K_TIMESTAMP) \o <<58, 32>> \o Quote(m.timestamp) \o <<44>> \o NL
    \o Spaces(INDENT) \o Quote(K_TOTAL_FILES) \o <<58, 32>> \o Dec(m.total_files) \o NL
    \o <<125>>

NoFiles == [k \in {} |-> 0]
\* the manifest dict as constructed
NewManifest(name) == [timestamp |-> Timestamp(name), total_files |-> 0, files |-> NoFiles]

VARIABLES
    argc,        \* len(sys.argv)
    stageName,   \* stage_path.name
    rootExists,  \* stage_path.exists()
    fs,          \* the entries of the stage directory, by relative path
    pc,          \* position of the process
    exitCode,    \* exit status, -1 while running (or killed by a signal)
    stderr,      \* diagnostics written to sys.stderr
    stdout,      \* the counts printed in the summary line
    manifest,    \* the manifest dict
    all_files,   \* list of (rel_path, abs_path)
    idx,         \* position of the checksum loop in all_files
    h,           \* calculate_sha256: bytes read so far
    checksum,    \* local of the loop
    file_size,   \* local of the loop
    wbuf,        \* text handed to the manifest file object, not yet flushed
    run,         \* number of the current invocation
    prev,        \* manifest of the previous invocation (history)
    fs0,         \* the stage directory when the invocation started (history)
    walkFs,      \* the stage directory when it was walked (history)
    enumerated,  \* all_files as the walk enumerated it (history)
    failed,      \* relative paths whose hashing raised (history)
    envSteps     \* actions other processes have taken

vars == <<argc, stageName, rootExists, fs, pc, exitCode, stderr, stdout, manifest,
          all_files, idx, h, checksum, file_size, wbuf, run, prev, fs0, walkFs,
          enumerated, failed, envSteps>>

\* --------------------------------------------------------- initial states
NoManifest == [timestamp |-> <<>>, total_files |-> 0, files |-> NoFiles]

\* manifest.json left by an earlier invocation, made when the directory was empty
EarlierManifest(name) == JsonText(NewManifest(name))

EntryChoices(p, name) ==
    IF p = MANIFEST_JSON THEN {NoEntry, RegFile(EarlierManifest(name))}
    ELSE {NoEntry, RegFile(InitContent(p)), DanglingLink}

AllEntries(name) == UNION {EntryChoices(p, name) : p \in Paths}

\* every tree over Paths
Trees(name) == {t \in [Paths -> AllEntries(name)] : \A p \in Paths : t[p] \in EntryChoices(p, name)}
\* the trees of the runs with interference: "a" and "s/b" only
SmallTrees(name) ==
    {t \in Trees(name) : /\ t[P_A].kind = "reg"
                         /\ t[P_SB].kind # "none"
                         /\ \A p \in Paths \ {P_A, P_SB} : t[p].kind = "none"}
EmptyTree == [p \in Paths |-> NoEntry]

\* "s_1", "s"
StageNames == {<<115, 95, 49>>, <<115>>}
\* every name of 1..MaxNameLen characters over "a", "_", "1", and "a_unknown"
Alphabet == {97, 95, 49}
AllNames ==
    UNION {[1..n -> Alphabet] : n \in 1..MaxNameLen}
    \cup {<<97, 95>> \o UNKNOWN}

InitProcess ==
    /\ argc \in {2, 3}
    /\ rootExists \in BOOLEAN
    /\ pc = "main"
    /\ exitCode = -1
    /\ stderr = <<>>
    /\ stdout = <<>>
    /\ manifest = NoManifest
    /\ all_files = <<>>
    /\ idx = 0
    /\ h = <<>>
    /\ checksum = <<>>
    /\ file_size = 0
    /\ wbuf = <<>>
    /\ run = 1
    /\ prev = NoManifest
    /\ enumerated = <<>>
    /\ failed = {}
    /\ envSteps = 0

InitTree(names, small) ==
    /\ stageName \in names
    /\ fs \in (IF ~rootExists THEN {EmptyTree}
               ELSE IF small THEN SmallTrees(stageName) ELSE Trees(stageName))
    /\ fs0 = fs
    /\ walkFs = fs

Init == InitProcess /\ InitTree(StageNames, FALSE)
InitSmall == InitProcess /\ InitTree(StageNames, TRUE)
InitName == InitProcess /\ InitTree(AllNames, TRUE)

\* ----------------------------------------------------------------- process
Cur == all_files[idx]
\* the entry the path abs_path names
Lookup(abs) == fs[RelativeTo(abs, stageName)]

locals == <<all_files, idx, h, checksum, file_size, wbuf>>
history == <<run, prev, fs0, walkFs, enumerated, failed, envSteps>>
inputs == <<argc, stageName, rootExists>>

\* if len(sys.argv) != 2: usage, sys.exit(1); else generate_manifest(sys.argv[1])
Main ==
    /\ pc = "main"
    /\ IF argc # 2
       THEN /\ stderr' = Append(stderr, "Usage: python3 generate_manifest.py <stage_directory>")
            /\ exitCode' = 1
            /\ pc' = "exited"
       ELSE /\ pc' = "check_root"
            /\ UNCHANGED <<stderr, exitCode>>
    /\ UNCHANGED <<inputs, fs, stdout, manifest, locals, history>>

\* CheckStageDir with the existence check left out (the mutant of CheckStageDir)
CheckStageDirNoCheck ==
    /\ pc = "check_root"
    /\ manifest' = NewManifest(stageName)
    /\ pc' = "walk"
    /\ UNCHANGED <<inputs, fs, exitCode, stderr, stdout, locals, history>>

\* if not stage_path.exists(): diagnostic, sys.exit(1); manifest = {...}
CheckStageDir ==
    /\ pc = "check_root"
    /\ IF ~rootExists
       THEN /\ stderr' = Append(stderr, "ERROR: Stage directory does not exist")
            /\ exitCode' = 1
            /\ pc' = "exited"
            /\ UNCHANGED manifest
       ELSE /\ manifest' = NewManifest(stageName)
            /\ pc' = "walk"
            /\ UNCHANGED <<stderr, exitCode>>
    /\ UNCHANGED <<inputs, fs, stdout, locals, history>>

\* for root, dirs, files in os.walk(stage_path): all_files.append(...)
Walk ==
    /\ pc = "walk"
    /\ \E w \in OsWalk(fs, <<>>) : all_files' = Collect(stageName, w)
    /\ enumerated' = all_files'
    /\ walkFs' = fs
    /\ pc' = "sort"
    /\ UNCHANGED <<inputs, fs, exitCode, stderr, stdout, manifest, idx, h, checksum,
                   file_size, wbuf, run, prev, fs0, failed, envSteps>>

\* all_files.sort(key=lambda x: x[0]), and the loop is entered
SortAllFiles ==
    /\ pc = "sort"
    /\ all_files' = SortByRel(all_files)
    /\ idx' = 1
    /\ pc' = IF all_files = <<>> THEN "write_open" ELSE "hash_open"
    /\ UNCHANGED <<inputs, fs, exitCode, stderr, stdout, manifest, h, checksum,
                   file_size, wbuf, history>>

\* calculate_sha256: open(file_path, "rb") inside the try
Sha256Open ==
    /\ pc = "hash_open"
    /\ LET e == Lookup(Cur[2])
       IN  IF e.kind = "reg" /\ e.readable
           THEN /\ h' = <<>>
                /\ pc' = "hash_read"
                /\ UNCHANGED <<checksum, failed>>
           ELSE /\ checksum' = ErrorMarker(IF e.kind = "reg" THEN EACCES ELSE ENOENT)
                /\ failed' = failed \cup {Cur[1]}
                /\ pc' = "exists"
                /\ UNCHANGED h
    /\ UNCHANGED <<inputs, fs, exitCode, stderr, stdout, manifest, all_files, idx,
                   file_size, wbuf, run, prev, fs0, walkFs, enumerated, envSteps>>

\* calculate_sha256: one f.read(4096) of the loop, update or hexdigest
Sha256Read ==
    /\ pc = "hash_read"
    /\ LET e == Lookup(Cur[2])
           chunk == SubSeq(e.content, Len(h) + 1, Min(Len(h) + CHUNK, Len(e.content)))
       IN  IF e.faulty
           THEN /\ checksum' = ErrorMarker(EIO)
                /\ failed' = failed \cup {Cur[1]}
                /\ pc' = "exists"
                /\ UNCHANGED h
           ELSE IF chunk = <<>>
           THEN /\ checksum' = Hexdigest(h)
                /\ pc' = "exists"
                /\ UNCHANGED <<h, failed>>
           ELSE /\ h' = h \o chunk
                /\ pc' = "hash_read"
                /\ UNCHANGED <<checksum, failed>>
    /\ UNCHANGED <<inputs, fs, exitCode, stderr, stdout, manifest, all_files, idx,
                   file_size, wbuf, run, prev, fs0, walkFs, enumerated, envSteps>>

\* os.path.exists(abs_path), size 0 if it is false
PathExists ==
    /\ pc = "exists"
    /\ IF Lookup(Cur[2]).kind = "reg"
       THEN pc' = "getsize" /\ UNCHANGED file_size
       ELSE file_size' = 0 /\ pc' = "record"
    /\ UNCHANGED <<inputs, fs, exitCode, stderr, stdout, manifest, all_files, idx, h,
                   checksum, wbuf, history>>

\* GetSize raising when the size differs from the bytes hashed (the mutant of GetSize)
GetSizeStrict ==
    /\ pc = "getsize"
    /\ IF Lookup(Cur[2]).kind = "reg"
          /\ (Cur[1] \in failed \/ Len(Lookup(Cur[2]).content) = Len(h))
       THEN /\ file_size' = Len(Lookup(Cur[2]).content)
            /\ pc' = "record"
            /\ UNCHANGED <<stderr, exitCode>>
       ELSE /\ stderr' = Append(stderr, "Traceback")
            /\ exitCode' = 1
            /\ pc' = "crashed"
            /\ UNCHANGED file_size
    /\ UNCHANGED <<inputs, fs, stdout, manifest, all_files, idx, h, checksum, wbuf, history>>

\* os.path.getsize(abs_path): the size, or an uncaught FileNotFoundError
GetSize ==
    /\ pc = "getsize"
    /\ IF Lookup(Cur[2]).kind = "reg"
       THEN /\ file_size' = Len(Lookup(Cur[2]).content)
            /\ pc' = "record"
            /\ UNCHANGED <<stderr, exitCode>>
       ELSE /\ stderr' = Append(stderr, "Traceback")
            /\ exitCode' = 1
            /\ pc' = "crashed"
            /\ UNCHANGED file_size
    /\ UNCHANGED <<inputs, fs, stdout, manifest, all_files, idx, h, checksum, wbuf, history>>

\* d[k] = v
Put(d, k, v) == [x \in DOMAIN d \cup {k} |-> IF x = k THEN v ELSE d[x]]

\* AddRecord counting a file twice (a mutant of AddRecord)
AddRecordTwice ==
    /\ pc = "record"
    /\ manifest' = [manifest EXCEPT
                      !.files = Put(@, Cur[1], [sha256 |-> checksum, size_bytes |-> file_size]),
                      !.total_files = @ + 2]
    /\ idx' = idx + 1
    /\ pc' = IF idx + 1 > Len(all_files) THEN "write_open" ELSE "hash_open"
    /\ UNCHANGED <<inputs, fs, exitCode, stderr, stdout, all_files, h, checksum,
                   file_size, wbuf, history>>

\* AddRecord rewriting manifest.json after every file (a mutant of AddRecord)
AddRecordFlush ==
    /\ pc = "record"
    /\ manifest' = [manifest EXCEPT
                      !.files = Put(@, Cur[1], [sha256 |-> checksum, size_bytes |-> file_size]),
                      !.total_files = @ + 1]
    /\ fs' = [fs EXCEPT ![MANIFEST_JSON] = RegFile(JsonText(manifest'))]
    /\ idx' = idx + 1
    /\ pc' = IF idx + 1 > Len(all_files) THEN "write_open" ELSE "hash_open"
    /\ UNCHANGED <<inputs, exitCode, stderr, stdout, all_files, h, checksum,
                   file_size, wbuf, history>>

\* manifest["files"][rel_path] = {...}; manifest["total_files"] += 1
AddRecord ==
    /\ pc = "record"
    /\ manifest' = [manifest EXCEPT
                      !.files = Put(@, Cur[1], [sha256 |-> checksum, size_bytes |-> file_size]),
                      !.total_files = @ + 1]
    /\ idx' = idx + 1
    /\ pc' = IF idx + 1 > Len(all_files) THEN "write_open" ELSE "hash_open"
    /\ UNCHANGED <<inputs, fs, exitCode, stderr, stdout, all_files, h, checksum,
                   file_size, wbuf, history>>

\* open(manifest_path, 'w'): the file is created, or truncated
OpenManifest ==
    /\ pc = "write_open"
    /\ fs' = [fs EXCEPT ![MANIFEST_JSON] = RegFile(<<>>)]
    /\ pc' = "write_dump"
    /\ UNCHANGED <<inputs, exitCode, stderr, stdout, manifest, locals, history>>

\* json.dump(manifest, f, ...): the text goes to the buffered file object;
\* none of it, or a part of it, has reached the file
JsonDump ==
    /\ pc = "write_dump"
    /\ wbuf' = JsonText(manifest)
    /\ \E k \in {0, Len(JsonText(manifest)) \div 2} :
          fs' = [fs EXCEPT ![MANIFEST_JSON].content = SubSeq(JsonText(manifest), 1, k)]
    /\ pc' = "write_close"
    /\ UNCHANGED <<inputs, exitCode, stderr, stdout, manifest, all_files, idx, h,
                   checksum, file_size, history>>

\* leaving the with block: the file object is flushed and closed
CloseManifest ==
    /\ pc = "write_close"
    /\ fs' = [fs EXCEPT ![MANIFEST_JSON].content = wbuf]
    /\ wbuf' = <<>>
    /\ pc' = "print"
    /\ UNCHANGED <<inputs, exitCode, stderr, stdout, manifest, all_files, idx, h,
                   checksum, file_size, history>>

\* print(f"Manifest generated: ..."); return; the interpreter exits with 0
PrintSummary ==
    /\ pc = "print"
    /\ stdout' = Append(stdout, manifest.total_files)
    /\ exitCode' = 0
    /\ pc' = "done"
    /\ UNCHANGED <<inputs, fs, stderr, manifest, locals, history>>

Terminal == {"done", "exited", "crashed", "killed"}

Program ==
    \/ Main \/ CheckStageDir \/ Walk \/ SortAllFiles
    \/ Sha256Open \/ Sha256Read \/ PathExists \/ GetSize \/ AddRecord
    \/ OpenManifest \/ JsonDump \/ CloseManifest \/ PrintSummary

\* ------------------------------------------------------------- environment
\* the process is terminated from outside
Kill ==
    /\ pc \notin Terminal
    /\ pc' = "killed"
    /\ UNCHANGED <<inputs, fs, exitCode, stderr, stdout, manifest, locals, history>>

\* the tool is invoked again on the same directory
Rerun ==
    /\ pc = "done"
    /\ run < MaxRuns
    /\ run' = run + 1
    /\ prev' = manifest
    /\ fs0' = fs
    /\ walkFs' = fs
    /\ enumerated' = <<>>
    /\ failed' = {}
    /\ pc' = "main"
    /\ exitCode' = -1
    /\ stderr' = <<>>
    /\ stdout' = <<>>
    /\ manifest' = NoManifest
    /\ all_files' = <<>>
    /\ idx' = 0
    /\ h' = <<>>
    /\ checksum' = <<>>
    /\ file_size' = 0
    /\ wbuf' = <<>>
    /\ UNCHANGED <<inputs, fs, envSteps>>

EnvStep(newfs, bound) ==
    /\ pc \notin Terminal
    /\ envSteps < bound
    /\ envSteps' = envSteps + 1
    /\ fs' = newfs
    /\ UNCHANGED <<inputs, pc, exitCode, stderr, stdout, manifest, locals,
                   run, prev, fs0, walkFs, enumerated, failed>>

\* another process removes a file (a handle that is open keeps its content)
Remove == \E p \in Paths :
    /\ fs[p].kind # "none"
    /\ EnvStep([fs EXCEPT ![p].kind = "none"], MaxEnvSteps)

\* another process revokes the read permission of a file
Revoke == \E p \in Paths :
    /\ fs[p].kind = "reg" /\ fs[p].readable
    /\ EnvStep([fs EXCEPT ![p].readable = FALSE], MaxEnvSteps)

\* the device starts failing the reads of a file
Fault == \E p \in Paths :
    /\ fs[p].kind = "reg" /\ ~fs[p].faulty
    /\ EnvStep([fs EXCEPT ![p].faulty = TRUE], MaxEnvSteps)

\* another process appends a byte to a file
AppendByte == \E p \in Paths :
    /\ fs[p].kind = "reg"
    /\ EnvStep([fs EXCEPT ![p].content = Append(@, 33)], MaxAppends)

\* ---------------------------------------------------------- specifications
\* one invocation, nobody else touching the directory; it may be killed
Next == Program \/ Kill
Spec == Init /\ [][Next]_vars

\* one invocation, for every name of the stage directory
SpecName == InitName /\ [][Next]_vars

\* invocations in a row, nobody else touching the directory
NextRerun == Program \/ Rerun
SpecRerun == InitSmall /\ [][NextRerun]_vars

\* one invocation while files are removed, made unreadable or fail
NextEnv == Program \/ Remove \/ Revoke \/ Fault
SpecEnv == InitSmall /\ [][NextEnv]_vars

\* one invocation while files are appended to
NextAppend == Program \/ AppendByte
SpecAppend == InitSmall /\ [][NextAppend]_vars

\* ------------------------------------------------------------------ claims
Keys == DOMAIN manifest.files
RelPaths(seq) == {seq[i][1] : i \in 1..Len(seq)}
AfterLoop == pc \in {"write_open", "write_dump", "write_close", "print", "done"}
IsErrorMarker(sha) == StartsWith(sha, ERROR_PREFIX)
HasUnderscore(name) == \E i \in 1..Len(name) : <<name[i]>> = UNDERSCORE
\* the regular files, and the entries that are not directories, of a tree
RegularFiles(fsx) == {p \in Paths : fsx[p].kind = "reg"}
NonDirEntries(fsx) == {p \in Paths : fsx[p].kind # "none"}

\* C1: the second of two invocations in a row on an otherwise untouched
\* directory produces the same `files` mapping and the same timestamp as the
\* first
C1_RerunSameFiles ==
    (run >= 2 /\ pc = "done") =>
        (manifest.files = prev.files /\ manifest.timestamp = prev.timestamp)

\* C2 as stated: once the loop is over, the keys of `files` are exactly the
\* regular files of the tree that was walked
C2_KeysAreRegularFiles == AfterLoop => Keys = RegularFiles(walkFs)

\* C2 amended: once the loop is over, the keys of `files` are exactly the
\* entries of the tree that are not directories, at every depth: the regular
\* files and the dangling symbolic links
C2_KeysAreNonDirEntries == AfterLoop => Keys = NonDirEntries(walkFs)

C2_Witness ==
    /\ pc = "done"
    /\ P_SDC \in Keys /\ walkFs[P_SDC].kind = "reg"
    /\ P_SB \in Keys /\ walkFs[P_SB].kind = "link"
    /\ walkFs[P_A].kind = "none" /\ P_A \notin Keys

\* C3: a step of the size lookup (the existence check or the size read) taken
\* when the file no longer exists records size 0 and goes on to the record
C3_VanishedFileGetsSizeZero ==
    [][(/\ pc \in {"exists", "getsize"}
        /\ Lookup(Cur[2]).kind = "none"
        /\ pc' # pc)
       => (pc' = "record" /\ file_size' = 0)]_vars

\* C4: a run in which the hashing of some file failed ends with exit code 0,
\* with a record for every discovered file and an error marker in the record
\* of every file whose hashing failed
C4_ReadFailureContained ==
    (failed # {} /\ pc \in Terminal) =>
        /\ pc = "done"
        /\ exitCode = 0
        /\ Keys = RelPaths(all_files)
        /\ \A f \in failed : IsErrorMarker(manifest.files[f].sha256)

\* C5: when the stage directory does not exist, the process leaves the check
\* only by exiting with status 1 and one diagnostic on stderr; nothing was
\* walked, hashed or printed and manifest.json is untouched
C5_MissingRootExits ==
    (~rootExists /\ argc = 2 /\ pc \notin {"main", "check_root", "killed"}) =>
        /\ pc = "exited"
        /\ exitCode = 1
        /\ stderr = <<"ERROR: Stage directory does not exist">>
        /\ stdout = <<>>
        /\ all_files = <<>> /\ enumerated = <<>> /\ failed = {}
        /\ manifest = NoManifest
        /\ fs = fs0

C5_Witness == ~rootExists /\ argc = 2 /\ pc = "exited" /\ exitCode = 1

\* C6 as stated: at every moment manifest.json is absent, the manifest of an
\* earlier run, or the complete manifest of this run
C6_NeverPartial ==
    \/ fs[MANIFEST_JSON].kind = "none"
    \/ fs0[MANIFEST_JSON].kind = "reg" /\ fs[MANIFEST_JSON].content = fs0[MANIFEST_JSON].content
    \/ fs[MANIFEST_JSON].content = JsonText(manifest)

AllProcessed == idx > Len(all_files) /\ Keys = RelPaths(all_files)

\* C6 amended: manifest.json is as the run found it until every discovered
\* file has been processed, and it is the complete manifest of this run once
\* the run has ended normally
C6_WrittenOnlyAfterLoop ==
    /\ fs[MANIFEST_JSON] # fs0[MANIFEST_JSON] => AllProcessed
    /\ pc = "done" => fs[MANIFEST_JSON] = RegFile(JsonText(manifest))

\* killed during the write: manifest.json was truncated and is incomplete
C6_Witness ==
    /\ pc = "killed"
    /\ Len(all_files) >= 2
    /\ fs0[MANIFEST_JSON].kind = "reg"
    /\ fs[MANIFEST_JSON] # fs0[MANIFEST_JSON]
    /\ fs[MANIFEST_JSON].content # JsonText(manifest)

\* C7: total_files is the number of entries of `files` at every moment, the
\* entries are the files processed so far, and after the loop every
\* discovered path is a key, each discovered once
C7_TotalFilesCountsEntries ==
    /\ manifest.total_files = Cardinality(Keys)
    /\ pc \in {"hash_open", "hash_read", "exists", "getsize", "record"} =>
          /\ Keys = {all_files[i][1] : i \in 1..(idx - 1)}
          /\ manifest.total_files = idx - 1
    /\ AfterLoop =>
          /\ Keys = RelPaths(all_files)
          /\ manifest.total_files = Len(all_files)
          /\ Cardinality(RelPaths(all_files)) = Len(all_files)
    /\ pc = "done" => fs[MANIFEST_JSON].content = JsonText(manifest)

C7_Witness == pc = "done" /\ manifest.total_files >= 3 /\ stdout = <<manifest.total_files>>

\* what a tree makes of one entry when nothing interferes
ExpectedRecord(e) ==
    IF e.kind = "reg"
    THEN [sha256 |-> Hexdigest(e.content), size_bytes |-> Len(e.content)]
    ELSE [sha256 |-> ErrorMarker(ENOENT), size_bytes |-> 0]
ExpectedManifest(name, fsx) ==
    [timestamp |-> Timestamp(name),
     total_files |-> Cardinality(NonDirEntries(fsx)),
     files |-> [p \in NonDirEntries(fsx) |-> ExpectedRecord(fsx[p])]]

\* C8: whatever the order of the enumeration, the files are processed in
\* ascending order of relative path and the document written is the one the
\* tree and the name determine
C8_OrderIndependent ==
    /\ idx >= 1 =>
          \A i, j \in 1..Len(all_files) : i < j => StrLess(all_files[i][1], all_files[j][1])
    /\ pc = "done" => fs[MANIFEST_JSON].content = JsonText(ExpectedManifest(stageName, walkFs))

\* a run that ended after an enumeration that was not in order
C8_Witness ==
    /\ pc = "done"
    /\ Len(enumerated) >= 3
    /\ \E i \in 1..(Len(enumerated) - 1) : StrLess(enumerated[i + 1][1], enumerated[i][1])

Constructed == pc \notin {"main", "check_root", "exited", "killed"}
\* the name is `before`, an underscore, and `after`, with no underscore in `before`
SplitsAt(name, i, after) ==
    /\ <<name[i]>> = UNDERSCORE
    /\ ~HasUnderscore(SubSeq(name, 1, i - 1))
    /\ name = SubSeq(name, 1, i) \o after

\* C9 as stated: the timestamp is what follows the first underscore of the
\* name, and it is "unknown" exactly when the name has no underscore
C9_UnknownIffNoUnderscore ==
    Constructed =>
        /\ HasUnderscore(stageName) =>
              \E i \in 1..Len(stageName) : SplitsAt(stageName, i, manifest.timestamp)
        /\ manifest.timestamp = UNKNOWN <=> ~HasUnderscore(stageName)

\* C9 amended: the timestamp is what follows the first underscore of the
\* name, and it is "unknown" when the name has no underscore
C9_TimestampAfterFirstUnderscore ==
    Constructed =>
        /\ HasUnderscore(stageName) =>
              \E i \in 1..Len(stageName) : SplitsAt(stageName, i, manifest.timestamp)
        /\ ~HasUnderscore(stageName) => manifest.timestamp = UNKNOWN

\* the part kept has an underscore of its own
C9_Witness == pc = "done" /\ HasUnderscore(manifest.timestamp)

\* C10: while files are appended to, the run never aborts, and when it ends
\* every discovered file has a record holding an error marker or the digest
\* of what the file held at some moment, with a size the file had
C10_AppendTolerated ==
    /\ pc # "crashed"
    /\ pc = "done" =>
          /\ exitCode = 0
          /\ Keys = RelPaths(all_files)
          /\ \A k \in Keys :
                /\ \/ IsErrorMarker(manifest.files[k].sha256)
                   \/ \E n \in Len(fs0[k].content)..Len(fs[k].content) :
                         manifest.files[k].sha256 = Hexdigest(SubSeq(fs[k].content, 1, n))
                /\ manifest.files[k].size_bytes \in {0} \cup (Len(fs0[k].content)..Len(fs[k].content))

\* a record whose digest is of fewer bytes than its size
C10_Witness ==
    /\ pc = "done"
    /\ \E k \in Keys :
          /\ ~IsErrorMarker(manifest.files[k].sha256)
          /\ Len(manifest.files[k].sha256) < 2 * manifest.files[k].size_bytes

====
